---- MODULE Spec2Model ----
(***************************************************************************)
(* State-machine model of the ensemble orchestrator of Quantum Commander   *)
(* (src/commander/ensemble.py) and of the model invoker it calls           *)
(* (src/commander/agent.py: run_once, make_agent, _lazy_client).           *)
(*                                                                         *)
(* Strings that the code inspects character by character (messages,        *)
(* responses, the ENSEMBLE_MODELS value, judge replies) are sequences of   *)
(* tokens; a token is a run of characters that the code never splits       *)
(* except where TokLen/Take say so.  Provider names, model names and mode  *)
(* names are TLA+ strings.                                                 *)
(***************************************************************************)
EXTENDS Integers, Sequences, FiniteSets, TLC

\* ------------------------------------------------------------------------
\* Text primitives (Python str operations used by ensemble.py / agent.py)
\* ------------------------------------------------------------------------

\* A token standing for a block of 1201 non-blank characters without keyword.
LongTok == "<filler-1201>"
\* The first 100 characters of LongTok, as message[:100] cuts it.
LongTokCut == "<filler-100>"

\* The fixed text of _get_fallback_response before and after message[:100].
FallbackHead == "I apologize, but I'm unable to provide a response at this time. Please try again later or simplify your query: "
FallbackTail == "..."

\* The marker make_agent puts in front of a caught backend error.
AgentErrorTag == "[agent-error]"

IsSpace(tok) == tok = " "

\* len() of one token
TokLen(tok) ==
    CASE tok = LongTok -> 1201
      [] tok = LongTokCut -> 100
      [] OTHER -> Len(tok)

RECURSIVE CharLen(_)
\* len(text)
CharLen(text) == IF text = <<>> THEN 0 ELSE TokLen(Head(text)) + CharLen(Tail(text))

RECURSIVE LStrip(_)
LStrip(text) ==
    IF text # <<>> /\ IsSpace(Head(text)) THEN LStrip(Tail(text)) ELSE text

RECURSIVE RStrip(_)
RStrip(text) ==
    IF text # <<>> /\ IsSpace(text[Len(text)])
    THEN RStrip(SubSeq(text, 1, Len(text) - 1))
    ELSE text

\* str.strip()
Strip(text) == RStrip(LStrip(text))

\* len(text.split()): the number of maximal runs of non-blank tokens
WordCount(text) ==
    Cardinality({i \in 1..Len(text) :
                    /\ ~IsSpace(text[i])
                    /\ (i = 1 \/ IsSpace(text[i - 1]))})

\* str.lower() of one token
LowerTok(tok) ==
    CASE tok = "TAX" -> "tax"
      [] tok = "Sorry" -> "sorry"
      [] OTHER -> tok

\* str.lower()
Lower(text) == [i \in 1..Len(text) |-> LowerTok(text[i])]

\* `sub in tok` for the lower-case tokens of the model
TokContains(tok, sub) ==
    \/ tok = sub
    \/ <<tok, sub>> \in { <<"syntax", "tax">>,
                          <<AgentErrorTag, "error">>,
                          <<"ValueError:", "error">>,
                          <<FallbackHead, "unable">> }

\* `sub in text`; "as an ai" is the one phrase that spans tokens
Contains(text, sub) ==
    \/ \E i \in 1..Len(text) : TokContains(text[i], sub)
    \/ /\ sub = "as an ai"
       /\ \E i \in 1..(Len(text) - 4) :
             SubSeq(text, i, i + 4) = <<"as", " ", "an", " ", "ai">>

RECURSIVE Take(_, _)
\* text[:n]
Take(text, n) ==
    IF text = <<>> \/ n <= 0 THEN <<>>
    ELSE IF TokLen(Head(text)) <= n
         THEN <<Head(text)>> \o Take(Tail(text), n - TokLen(Head(text)))
         ELSE IF Head(text) = LongTok /\ n = 100 THEN <<LongTokCut>>
              ELSE <<"<cut>">>

RECURSIVE Join(_)
\* the Python string made of the tokens of a text
Join(text) == IF text = <<>> THEN "" ELSE Head(text) \o Join(Tail(text))

\* ------------------------------------------------------------------------
\* ensemble.py: pure helpers
\* ------------------------------------------------------------------------

\* _validate_model_config: both keys present (values are not inspected)
_validate_model_config(model_config) ==
    \A field \in {"provider", "model"} : field \in DOMAIN model_config

\* _get_fallback_response
_get_fallback_response(message) ==
    <<FallbackHead>> \o Take(message, 100) \o <<FallbackTail>>

error_indicators == {"sorry", "error", "unable", "cannot", "as an ai"}

Min(a, b) == IF a <= b THEN a ELSE b
Max(a, b) == IF a >= b THEN a ELSE b

_calculate_confidence_NoZeroCheck(question, response) ==
    LET question_len == WordCount(question)
        response_len == WordCount(response)
        error_score  == Cardinality({ind \in error_indicators :
                                        Contains(Lower(response), ind)})
        den == 50 * question_len
        raw == 5 * question_len * (7 - error_score)
               + 3 * Min(5 * question_len, response_len)
    IN  IF question_len = 0
        THEN [num |-> 0, den |-> 1]
        ELSE [num |-> Min(den, Max(5 * question_len, raw)), den |-> den]

\* _calculate_confidence, as an exact fraction: the value is
\* num / den with den = 50 * question_len (den = 1 when the result is 0.0).
\*   0.7 - 0.1*e + 0.3*min(1, (r/q)/5)  =  (5q(7-e) + 3*min(5q, r)) / 50q
_calculate_confidence(question, response) ==
    LET question_len == WordCount(question)
        response_len == WordCount(response)
        error_score  == Cardinality({ind \in error_indicators :
                                        Contains(Lower(response), ind)})
        den == 50 * question_len
        raw == 5 * question_len * (7 - error_score)
               + 3 * Min(5 * question_len, response_len)
    IN  IF question_len = 0 \/ response_len = 0
        THEN [num |-> 0, den |-> 1]
        ELSE [num |-> Min(den, Max(5 * question_len, raw)), den |-> den]

\* a < b for two confidences
ConfLess(a, b) == a.num * b.den < b.num * a.den

\* ------------------------------------------------------------------------
\* ensemble.py: the pool resolver
\* ------------------------------------------------------------------------

\* JSON string literals of the model and the Python str each one denotes
Unquote ==
    ("\"provider\"" :> "provider") @@ ("\"model\"" :> "model") @@
    ("\"groq\"" :> "groq") @@ ("\"llama\"" :> "llama")

IsQuoted(tok) == tok \in DOMAIN Unquote

JsonFail == [ok |-> FALSE, isList |-> FALSE, items |-> <<>>]

RECURSIVE ParsePairs(_, _, _)
\* the members of a JSON object from position i (a key is expected there);
\* a later duplicate key overrides an earlier one, as json.loads does
ParsePairs(s, i, obj) ==
    IF \/ i + 3 > Len(s)
       \/ ~IsQuoted(s[i]) \/ s[i + 1] # ":" \/ ~IsQuoted(s[i + 2])
    THEN [ok |-> FALSE, next |-> i, val |-> obj]
    ELSE LET o2 == (Unquote[s[i]] :> Unquote[s[i + 2]]) @@ obj
         IN  IF s[i + 3] = "," THEN ParsePairs(s, i + 4, o2)
             ELSE IF s[i + 3] = "}" THEN [ok |-> TRUE, next |-> i + 4, val |-> o2]
             ELSE [ok |-> FALSE, next |-> i, val |-> obj]

\* a JSON object starting at position i
ParseObject(s, i) ==
    IF i + 1 > Len(s) \/ s[i] # "{"
    THEN [ok |-> FALSE, next |-> i, val |-> <<>>]
    ELSE IF s[i + 1] = "}" THEN [ok |-> TRUE, next |-> i + 2, val |-> <<>>]
    ELSE ParsePairs(s, i + 1, <<>>)

RECURSIVE ParseItems(_, _, _)
\* the elements of a JSON list from position i (an object is expected there)
ParseItems(s, i, acc) ==
    LET o == ParseObject(s, i)
    IN  IF ~o.ok \/ o.next > Len(s) THEN JsonFail
        ELSE IF s[o.next] = "," THEN ParseItems(s, o.next + 1, Append(acc, o.val))
        ELSE IF s[o.next] = "]" /\ o.next = Len(s)
             THEN [ok |-> TRUE, isList |-> TRUE, items |-> Append(acc, o.val)]
        ELSE JsonFail

\* json.loads on the JSON values the model's strings can spell: a list of
\* objects with string members, one object, one string literal.  Blanks
\* between tokens are insignificant.  ok = FALSE stands for JSONDecodeError.
JsonLoads(env_val) ==
    LET s == SelectSeq(env_val, LAMBDA tok : ~IsSpace(tok))
    IN  IF s = <<>> THEN JsonFail
        ELSE IF s[1] = "["
             THEN IF Len(s) = 2 /\ s[2] = "]"
                  THEN [ok |-> TRUE, isList |-> TRUE, items |-> <<>>]
                  ELSE ParseItems(s, 2, <<>>)
        ELSE IF s[1] = "{"
             THEN LET o == ParseObject(s, 1)
                  IN  IF o.ok /\ o.next = Len(s) + 1
                      THEN [ok |-> TRUE, isList |-> FALSE, items |-> <<>>]
                      ELSE JsonFail
        ELSE IF Len(s) = 1 /\ IsQuoted(s[1])
             THEN [ok |-> TRUE, isList |-> FALSE, items |-> <<>>]
        ELSE JsonFail

\* position of the first sep in s at or after i, Len(s) + 1 when there is none
RECURSIVE Find(_, _, _)
Find(s, sep, i) ==
    IF i > Len(s) THEN Len(s) + 1
    ELSE IF s[i] = sep THEN i
    ELSE Find(s, sep, i + 1)

RECURSIVE Split(_, _)
\* str.split(sep)
Split(s, sep) ==
    LET k == Find(s, sep, 1)
    IN  IF k > Len(s) THEN <<s>>
        ELSE <<SubSeq(s, 1, k - 1)>> \o Split(SubSeq(s, k + 1, Len(s)), sep)

RECURSIVE ParseCsvParts(_)
\* the loop of _parse_models over env_val.split(",")
ParseCsvParts(parts) ==
    IF parts = <<>> THEN <<>>
    ELSE LET part == Strip(Head(parts))
             k == Find(part, ":", 1)
             model_config ==
                 [provider |-> Join(Strip(SubSeq(part, 1, k - 1))),
                  model |-> Join(Strip(SubSeq(part, k + 1, Len(part))))]
             rest == ParseCsvParts(Tail(parts))
         IN  IF part = <<>> THEN rest
             ELSE IF k <= Len(part) /\ _validate_model_config(model_config)
                  THEN <<model_config>> \o rest
             ELSE rest

\* _parse_models
_parse_models(env_val) ==
    IF env_val = <<>> THEN <<>>
    ELSE LET v == Strip(env_val)
             data == JsonLoads(v)
         IN  IF data.ok /\ data.isList
             THEN SelectSeq(data.items, _validate_model_config)
             ELSE ParseCsvParts(Split(v, ","))

\* os.getenv defaults read by _get_default_models and by the judge defaults
OPENAI_MODEL == "gpt-4o"
ANTHROPIC_MODEL == "claude-3-5-sonnet-latest"
GROQ_MODEL == "llama-3.1-70b-versatile"
DEEPSEEK_MODEL == "deepseek-reasoner"

\* _get_default_models
_get_default_models(environ) ==
    <<[provider |-> "openai", model |-> OPENAI_MODEL],
      [provider |-> "anthropic", model |-> ANTHROPIC_MODEL]>>
    \o (IF environ.GROQ_API_KEY
        THEN <<[provider |-> "groq", model |-> GROQ_MODEL]>> ELSE <<>>)
    \o (IF environ.DEEPSEEK_API_KEY
        THEN <<[provider |-> "deepseek", model |-> DEEPSEEK_MODEL]>> ELSE <<>>)

\* run_ensemble, lines 181-190: the pool the strategies iterate
ResolvePool(models, environ) ==
    LET pool == IF models # <<>> THEN models
                ELSE _parse_models(environ.ENSEMBLE_MODELS)
        validated_models == SelectSeq(pool, _validate_model_config)
    IN  IF validated_models # <<>> THEN validated_models
        ELSE _get_default_models(environ)

\* ------------------------------------------------------------------------
\* ensemble.py: the router's classifier
\* ------------------------------------------------------------------------

RouterKeywords == {"law", "statute", "fdcpa", "ucc", "tax", "irs", "contract"}

\* the first entry of pool whose provider is in provs, <<>> when none
FirstWithProvider(pool, provs) ==
    LET hits == SelectSeq(pool, LAMBDA m : m.provider \in provs)
    IN  IF hits = <<>> THEN <<>> ELSE <<hits[1]>>

RECURSIVE FirstByPriority(_, _)
FirstByPriority(pool, prio) ==
    IF prio = <<>> THEN <<>>
    ELSE LET hit == FirstWithProvider(pool, {Head(prio)})
         IN  IF hit # <<>> THEN hit ELSE FirstByPriority(pool, Tail(prio))

_router_choice_FirstEntry(question, pool) ==
    IF pool # <<>> THEN pool[1] ELSE [provider |-> "openai", model |-> "gpt-4o"]

\* _router_choice
_router_choice(question, pool) ==
    LET q == Lower(question)
        byKeyword == IF \E k \in RouterKeywords : Contains(q, k)
                     THEN FirstWithProvider(pool, {"anthropic", "openai"})
                     ELSE <<>>
        byLength == IF CharLen(question) > 1200
                    THEN FirstByPriority(pool, <<"openai", "anthropic", "deepseek", "groq">>)
                    ELSE <<>>
    IN  IF byKeyword # <<>> THEN byKeyword[1]
        ELSE IF byLength # <<>> THEN byLength[1]
        ELSE IF pool # <<>> THEN pool[1]
        ELSE [provider |-> "openai", model |-> "gpt-4o"]

\* ------------------------------------------------------------------------
\* agent.py: the model invoker
\* ------------------------------------------------------------------------

\* Python None
None == [none |-> TRUE]

\* str.lower() of the provider and mode names of the model
LowerName(name) ==
    CASE name = "Router" -> "router"
      [] name = "Cascade" -> "cascade"
      [] OTHER -> name

\* settings.MODEL_PROVIDER (app/settings.py default)
MODEL_PROVIDER == "openai"

\* What the backend of one invocation does: the SDK client cannot be built
\* (missing API key, SDK not importable), the API call fails, or the API
\* returns the text raw.
ClientError == [kind |-> "client_error", raw |-> <<>>]
ApiError == [kind |-> "api_error", raw |-> <<>>]
Answer(raw) == [kind |-> "text", raw |-> raw]

\* str(e) of the exceptions of the model
ClientErrorText == <<"The api_key client option must be set">>
UnsupportedText(provider) == <<"Unsupported MODEL_PROVIDER: ", provider>>
\* f"[agent-error] {type(e).__name__}: {e}"
AgentErrorText == <<AgentErrorTag, " ", "APIError:", " ", "Connection", " ", "refused">>

\* _lazy_client: the SDK family of the provider, or the exception raised
_lazy_client(provider_override, outcome) ==
    LET provider == LowerName(IF provider_override # "" THEN provider_override
                              ELSE MODEL_PROVIDER)
    IN  IF provider \notin {"openai", "anthropic", "groq", "deepseek"}
        THEN [raised |-> TRUE, exc |-> UnsupportedText(provider), provider |-> ""]
        ELSE IF outcome.kind = "client_error"
        THEN [raised |-> TRUE, exc |-> ClientErrorText, provider |-> ""]
        ELSE [raised |-> FALSE, exc |-> <<>>,
              provider |-> IF provider = "deepseek" THEN "openai" ELSE provider]

\* make_agent: _lazy_client runs before the try block, so its exception
\* leaves make_agent; an exception of the API call is turned into text
make_agent(provider_override, outcome) ==
    LET c == _lazy_client(provider_override, outcome)
    IN  IF c.raised THEN [raised |-> TRUE, exc |-> c.exc, text |-> <<>>]
        ELSE IF outcome.kind = "api_error"
        THEN [raised |-> FALSE, exc |-> <<>>, text |-> AgentErrorText]
        ELSE [raised |-> FALSE, exc |-> <<>>, text |-> Strip(outcome.raw)]

\* the timeout argument of run_ensemble (ensemble.py:175) and the outcome of
\* an earlier run of the same request
VARIABLES
    timeout,       \* the argument, in seconds
    tm_first       \* the request, invocations and result of the earlier run

timeoutVars == <<timeout, tm_first>>

\* timeout: int = 30
DefaultTimeout == 30

TimeoutIdle == timeout = DefaultTimeout /\ tm_first = None

run_once_Deadline(provider, in_loop, outcome) ==
    LET r == make_agent(provider, outcome)
    IN  IF timeout < DefaultTimeout
        THEN [raised |-> TRUE, exc |-> <<"TimeoutError">>, text |-> <<>>]
        ELSE IF in_loop /\ r.raised
        THEN [raised |-> FALSE, exc |-> <<>>, text |-> <<>>]
        ELSE r

\* run_once: with no running event loop asyncio.run returns or re-raises
\* what make_agent does.  Inside a running loop asyncio.run raises
\* RuntimeError, make_agent runs in a thread, and an exception there leaves
\* result_holder empty: the caller gets "".
run_once(provider, in_loop, outcome) ==
    LET r == make_agent(provider, outcome)
    IN  IF in_loop /\ r.raised
        THEN [raised |-> FALSE, exc |-> <<>>, text |-> <<>>]
        ELSE r

\* ------------------------------------------------------------------------
\* ensemble.py: _cached_model_call (functools.lru_cache)
\* ------------------------------------------------------------------------

\* lru_cache(maxsize=100)
maxsize == 100

CachePos_MessageOnly(c, key) ==
    LET hits == {i \in 1..Len(c) : c[i].key[3] = key[3]}
    IN  IF hits = {} THEN 0 ELSE CHOOSE i \in hits : TRUE

\* the cache is a sequence of entries, least recently used first
CachePos(c, key) ==
    LET hits == {i \in 1..Len(c) : c[i].key = key}
    IN  IF hits = {} THEN 0 ELSE CHOOSE i \in hits : TRUE

Remove(c, i) == SubSeq(c, 1, i - 1) \o SubSeq(c, i + 1, Len(c))

CacheStore_Unbounded(c, entry) == Append(c, entry)

\* insert at the most recently used end, evicting the least recently used
CacheStore(c, entry) ==
    LET c2 == Append(c, entry)
    IN  IF Len(c2) > maxsize THEN Tail(c2) ELSE c2

_cached_model_call_SkipErrors(c, key, in_loop, outcome) ==
    LET i == CachePos(c, key)
        r == run_once(key[1], in_loop, outcome)
        failed == outcome.kind = "api_error" \/ make_agent(key[1], outcome).raised
    IN  IF i > 0
        THEN [raised |-> FALSE, exc |-> <<>>, text |-> c[i].val, hit |-> TRUE,
              failed |-> c[i].failed, cache |-> Append(Remove(c, i), c[i])]
        ELSE IF r.raised
        THEN [raised |-> TRUE, exc |-> r.exc, text |-> <<>>, hit |-> FALSE,
              failed |-> TRUE, cache |-> c]
        ELSE [raised |-> FALSE, exc |-> <<>>, text |-> r.text, hit |-> FALSE,
              failed |-> failed,
              cache |-> IF r.text # <<>> /\ Head(r.text) = AgentErrorTag THEN c
                        ELSE CacheStore(c, [key |-> key, val |-> r.text,
                                            failed |-> failed])]

\* One call of _cached_model_call.  failed is bookkeeping of the model, not
\* program state: whether the backend call behind the value failed.
_cached_model_call(c, key, in_loop, outcome) ==
    LET i == CachePos(c, key)
        r == run_once(key[1], in_loop, outcome)
        failed == outcome.kind = "api_error" \/ make_agent(key[1], outcome).raised
    IN  IF i > 0
        THEN [raised |-> FALSE, exc |-> <<>>, text |-> c[i].val, hit |-> TRUE,
              failed |-> c[i].failed, cache |-> Append(Remove(c, i), c[i])]
        ELSE IF r.raised
        THEN [raised |-> TRUE, exc |-> r.exc, text |-> <<>>, hit |-> FALSE,
              failed |-> TRUE, cache |-> c]
        ELSE [raised |-> FALSE, exc |-> <<>>, text |-> r.text, hit |-> FALSE,
              failed |-> failed,
              cache |-> CacheStore(c, [key |-> key, val |-> r.text, failed |-> failed])]

\* ------------------------------------------------------------------------
\* ensemble.py: the judge
\* ------------------------------------------------------------------------

\* temperatures are counted in tenths: 0.2 is 2
DefaultTemperature == 2
JudgeTemperatureCap == 2
JudgeMaxTokens == 16

\* int() of the digit runs of the model
DigitsVal == ("0" :> 0) @@ ("1" :> 1) @@ ("2" :> 2) @@ ("9" :> 9)

\* whether a token begins / ends with a word character (\w)
StartsWord(tok) == ~IsSpace(tok) /\ tok \notin {AgentErrorTag, ":"}
EndsWord(tok) == ~IsSpace(tok) /\ tok \notin {AgentErrorTag, "APIError:", ":"}

FirstInteger_None(out) == -1

\* re.search(r"\b(\d+)\b", out): the first digit run with a word boundary on
\* both sides, -1 when there is none
FirstInteger(out) ==
    LET hits == {k \in 1..Len(out) :
                    /\ out[k] \in DOMAIN DigitsVal
                    /\ (k = 1 \/ ~EndsWord(out[k - 1]))
                    /\ (k = Len(out) \/ ~StartsWord(out[k + 1]))}
    IN  IF hits = {} THEN -1
        ELSE DigitsVal[out[CHOOSE k \in hits : \A h \in hits : k <= h]]

RECURSIVE Numbered(_, _)
\* "\n\n".join(f"[{i}] ({label})\n{text}" ...), i being the index of the first
Numbered(cands, n) ==
    IF cands = <<>> THEN <<>>
    ELSE <<"[" \o ToString(n) \o "] (" \o Join(Head(cands).label) \o ")\n">>
         \o Head(cands).text
         \o (IF Len(cands) > 1 THEN <<"\n\n">> ELSE <<>>)
         \o Numbered(Tail(cands), n + 1)

\* the prompt _judge builds
JudgePrompt(question, cands) ==
    <<"You are a careful evaluator. Pick the best answer by index.\nQuestion:\n">>
    \o question \o <<"\n\nCandidates:\n">> \o Numbered(cands, 0) \o <<"\n\nRules: ...">>

_judge_LastOnError(question, cands, r) ==
    IF r.raised
    THEN IF cands # <<>> THEN cands[Len(cands)].text
         ELSE _get_fallback_response(question)
    ELSE LET out == Strip(r.text)
             m == FirstInteger(out)
             idx == Max(0, Min(IF m >= 0 THEN m ELSE 0, Len(cands) - 1))
         IN  cands[idx + 1].text

\* _judge, r being what its _cached_model_call did
_judge(question, cands, r) ==
    IF r.raised
    THEN IF cands # <<>> THEN cands[1].text ELSE _get_fallback_response(question)
    ELSE LET out == Strip(r.text)
             m == FirstInteger(out)
             idx == Max(0, Min(IF m >= 0 THEN m ELSE 0, Len(cands) - 1))
         IN  cands[idx + 1].text

\* the key of the guardrail's max(): (confidence, len(text.strip()))
KeyLess(question, a, b) ==
    LET ca == _calculate_confidence(question, a.text)
        cb == _calculate_confidence(question, b.text)
    IN  \/ ConfLess(ca, cb)
        \/ /\ ~ConfLess(cb, ca)
           /\ CharLen(Strip(a.text)) < CharLen(Strip(b.text))

\* max(candidates, key=...): the first candidate with the greatest key
BestCandidate(question, cands) ==
    cands[CHOOSE k \in 1..Len(cands) :
            /\ \A j \in 1..Len(cands) : ~KeyLess(question, cands[k], cands[j])
            /\ \A j \in 1..(k - 1) : KeyLess(question, cands[j], cands[k])]

FirstMatch_NoBreak(cands, chosen) ==
    LET same == {k \in 1..Len(cands) : cands[k].text = chosen}
    IN  IF same = {} THEN <<>>
        ELSE cands[CHOOSE k \in same : \A h \in same : k >= h].label

\* lines 274-278: the label of the first candidate whose text is the pick,
\* <<>> for winner_label = None
FirstMatch(cands, chosen) ==
    LET same == {k \in 1..Len(cands) : cands[k].text = chosen}
    IN  IF same = {} THEN <<>>
        ELSE cands[CHOOSE k \in same : \A h \in same : k <= h].label

Pick_NoGuardrail(question, cands, r) ==
    LET chosen == _judge(question, cands, r)
    IN  [text |-> chosen, label |-> FirstMatch(cands, chosen), guard |-> FALSE]

\* lines 272-290: the judge's pick, the exact-match winner and the guardrail.
\* label is <<>> when no candidate's text equals the pick.
Pick(question, cands, r) ==
    LET chosen == _judge(question, cands, r)
        winner_label == FirstMatch(cands, chosen)
        best == BestCandidate(question, cands)
    IN  IF (chosen = <<>> \/ Strip(chosen) = <<>>) /\ cands # <<>>
        THEN [text |-> best.text, label |-> best.label, guard |-> TRUE]
        ELSE [text |-> chosen, label |-> winner_label, guard |-> FALSE]

\* dict item assignment d[k] = v
SetKey(d, k, v) == (k :> v) @@ d

\* lines 292-294: meta["winner"] from a label "provider:model"
WithWinner(meta, label) ==
    LET k == Find(label, ":", 1)
    IN  IF label # <<>> /\ k <= Len(label)
        THEN SetKey(meta, "winner",
                    [provider |-> Join(SubSeq(label, 1, k - 1)),
                     model |-> Join(SubSeq(label, k + 1, Len(label)))])
        ELSE meta

\* ------------------------------------------------------------------------
\* The requests and the process environment the model explores
\* ------------------------------------------------------------------------

\* longest explicit pool of a request
MaxPool == 2
\* the max_tokens argument of the requests
ReqMaxTokens == 3

\* an argument that is not passed / an environment variable that is not set
Unset == "<unset>"

Messages == { <<>>, <<" ">>, <<"my", " ", "TAX">>, <<LongTok>> }

\* mode = None and mode = "" are both "" (`mode or ...`)
Modes == { "", "Router", "cascade", "vote" }

\* pool entries: three well-formed ones and one without its model key
Configs ==
    { [provider |-> "openai", model |-> "gpt-4o"],
      [provider |-> "anthropic", model |-> "claude"],
      [provider |-> "groq", model |-> "llama"],
      [provider |-> "groq"] }

\* explicit pools with an entry whose provider or model is the empty string
EmptyFieldPools ==
    { << [provider |-> "", model |-> "gpt-4o"] >>,
      << [provider |-> "openai", model |-> ""],
         [provider |-> "groq", model |-> "llama"] >> }

\* models = None and models = [] are both <<>> (`models or ...`)
Pools == UNION { [1..n -> Configs] : n \in 0..MaxPool } \cup EmptyFieldPools

\* values of ENSEMBLE_MODELS; unset and "" are both <<>> (`if not env_val`)
CsvGood == <<"groq", ":", "llama", ",", " ", "openai", ":", "gpt-4o">>
CsvNoColon == <<"groq", " ", "llama">>
CsvEmptyModel == <<"openai", ":">>
JsonGood == <<"[", "{", "\"provider\"", ":", "\"groq\"", ",", " ",
              "\"model\"", ":", "\"llama\"", "}", "]">>
JsonTruncated == SubSeq(JsonGood, 1, Len(JsonGood) - 1)
JsonNoModel == <<"[", "{", "\"provider\"", ":", "\"groq\"", "}", "]">>
JsonNoColon == <<"[", "{", "\"groq\"">>

\* the *_API_KEY fields tell whether the key of the provider is configured
DefaultEnviron ==
    [ENSEMBLE_MODE |-> Unset, ENSEMBLE_MODELS |-> <<>>,
     OPENAI_API_KEY |-> FALSE, ANTHROPIC_API_KEY |-> FALSE,
     GROQ_API_KEY |-> FALSE, DEEPSEEK_API_KEY |-> FALSE]

Environs ==
    { DefaultEnviron,
      [DefaultEnviron EXCEPT !.ENSEMBLE_MODE = "Cascade", !.ENSEMBLE_MODELS = CsvGood],
      [DefaultEnviron EXCEPT !.ENSEMBLE_MODELS = CsvNoColon, !.GROQ_API_KEY = TRUE],
      [DefaultEnviron EXCEPT !.ENSEMBLE_MODELS = CsvEmptyModel],
      [DefaultEnviron EXCEPT !.ENSEMBLE_MODELS = JsonGood],
      [DefaultEnviron EXCEPT !.ENSEMBLE_MODELS = JsonTruncated, !.OPENAI_API_KEY = TRUE],
      [DefaultEnviron EXCEPT !.ENSEMBLE_MODELS = JsonNoModel, !.DEEPSEEK_API_KEY = TRUE],
      [DefaultEnviron EXCEPT !.ENSEMBLE_MODELS = JsonNoColon] }

\* what the backend of a pool member may do
MemberOutcomes ==
    { ClientError, ApiError, Answer(<<>>), Answer(<<"ok", " ">>), Answer(<<"essay">>) }

\* what the backend of the judge may do
JudgeOutcomes ==
    { ClientError, ApiError, Answer(<<"1">>), Answer(<<"pick", " ", "9">>) }

\* ------------------------------------------------------------------------
\* State
\* ------------------------------------------------------------------------

VARIABLES
    environ,      \* os.environ of the process
    cache,        \* the lru_cache of _cached_model_call
    pc,           \* where run_ensemble is: idle, router, cascade, committee, judge, done
    req,          \* the arguments of the call
    mode,         \* local mode
    pool,         \* local pool
    i,            \* position in pool of the next member the loop invokes
    candidates,   \* local candidates (committee)
    best,         \* locals best_text, best_score, best_model (cascade)
    meta,         \* local meta
    result,       \* the value run_ensemble returned
    invocations   \* the calls of _cached_model_call of this request, in order

vars == <<environ, cache, pc, req, mode, pool, i, candidates, best, meta,
          result, invocations>>

\* one application of _calculate_confidence
VARIABLES
    sc_question,    \* argument question
    sc_response,    \* argument response
    sc_confidence   \* the value returned, None before the call

scoreVars == <<sc_question, sc_response, sc_confidence>>

ScoreIdle == sc_question = <<>> /\ sc_response = <<>> /\ sc_confidence = None

\* one connection of the /ws endpoint (commander.py, ws)
VARIABLES
    first_timeout,  \* QC_STREAM_FIRST_TIMEOUT, in seconds
    ws_pc,          \* where the handler is: receive (line 202), top (line 304),
                    \* anext (line 308)
    ws_inbox,       \* frames the client sent that no receive_text() returned yet
    ws_sent,        \* frames the handler sent, in order
    ws_data,        \* local data of the streamed request, None outside of it
    cancel_event,   \* cancel_event.is_set()
    listener_task,  \* the task running listen_cancel: none, listening, done, cancelled
    agen,           \* the stream_agent generator: what it still yields
    first_chunk,    \* local first_chunk
    ws_waited,      \* seconds since `started`
    ws_client       \* the client: requests sent, cancels sent, whether a cancel
                    \* with the id of the streamed request was sent

wsVars == <<ws_pc, ws_inbox, ws_sent, ws_data, cancel_event, listener_task, agen,
            first_chunk, ws_waited, ws_client>>

NoStream == [state |-> "closed", left |-> <<>>]

WsIdle ==
    /\ ws_pc = "receive"
    /\ ws_inbox = <<>>
    /\ ws_sent = <<>>
    /\ ws_data = None
    /\ cancel_event = FALSE
    /\ listener_task = "none"
    /\ agen = NoStream
    /\ first_chunk = TRUE
    /\ ws_waited = 0
    /\ ws_client = [sent |-> 0, cancels |-> 0, cancelled |-> FALSE]

\* os.getenv("QC_STREAM_FIRST_TIMEOUT", "10")
FIRST_TIMEOUT == 10

\* one request of the /sse endpoint (routes_sse.py, eventgen)
VARIABLES
    sse_pc,        \* where eventgen is: start (line 77), loop (line 108),
                   \* fallback_timeout (line 113), fallback_error (line 131), closed
    sse_q,         \* local q
    sse_done,      \* done.is_set()
    sse_stream,    \* task t1 (stream_task) and what stream_agent still does
    sse_ping,      \* task t2 (ping_task): none, test, sleeping, exited, cancelled
    sse_out,       \* the events eventgen yielded, in order
    sse_first,     \* local first
    sse_waited,    \* seconds since `started`
    sse_produced,  \* the deltas stream_agent yielded, in order
    sse_pings      \* the pings ping_task put

sseVars == <<sse_pc, sse_q, sse_done, sse_stream, sse_ping, sse_out, sse_first,
             sse_waited, sse_produced, sse_pings>>

SseIdle ==
    /\ sse_pc = "start"
    /\ sse_q = <<>>
    /\ sse_done = FALSE
    /\ sse_stream = [state |-> "none", left |-> <<>>, raises |-> FALSE]
    /\ sse_ping = "none"
    /\ sse_out = <<>>
    /\ sse_first = TRUE
    /\ sse_waited = 0
    /\ sse_produced = <<>>
    /\ sse_pings = 0

\* the cancellation signal of the transport layer for the running request
VARIABLE cancel_requested

\* a process that calls _cached_model_call again and again (ensemble.py:89-97)
VARIABLES
    cc_calls,      \* how many calls were made after the cache was warmed up
    cc_last,       \* what the last call was given and what it did
    cc_used        \* the number of uses of entries so far, and for every key
                   \* the number of the last use of its entry

cacheVars == <<cc_calls, cc_last, cc_used>>

CacheIdle == cc_calls = 0 /\ cc_last = None /\ cc_used = [clock |-> 0, at |-> <<>>]

\* one call of stream_agent (agent.py:204-341)
VARIABLES
    sa_pc,         \* where the generator is: start, get (line 338), stopped, raised
    sa_thread,     \* the run_stream thread and what the provider still does
    sa_ready,      \* callbacks scheduled with loop.call_soon_threadsafe, in order
    sa_queue,      \* local queue
    sa_out,        \* the chunks the generator yielded, in order
    sa_produced    \* the non-empty deltas the provider produced, in order

agentVars == <<sa_pc, sa_thread, sa_ready, sa_queue, sa_out, sa_produced>>

AgentIdle ==
    /\ sa_pc = "start"
    /\ sa_thread = [state |-> "none", left |-> <<>>, raises |-> FALSE]
    /\ sa_ready = <<>>
    /\ sa_queue = <<>>
    /\ sa_out = <<>>
    /\ sa_produced = <<>>

lateVars == <<cacheVars, timeoutVars, agentVars>>

LateIdle == CacheIdle /\ TimeoutIdle /\ AgentIdle

\* the state outside run_ensemble
NotEnsemble == <<scoreVars, first_timeout, wsVars, sseVars, cancel_requested, lateVars>>

allVars == <<vars, NotEnsemble>>

NoBest == [text |-> <<>>, score |-> 0, model |-> None]

Init ==
    /\ environ \in Environs
    /\ cache = <<>>
    /\ pc = "idle"
    /\ req = None
    /\ mode = ""
    /\ pool = <<>>
    /\ i = 1
    /\ candidates = <<>>
    /\ best = NoBest
    /\ meta = None
    /\ result = None
    /\ invocations = <<>>
    /\ ScoreIdle
    /\ first_timeout = FIRST_TIMEOUT
    /\ WsIdle
    /\ SseIdle
    /\ cancel_requested = FALSE
    /\ LateIdle

Blank_NoStrip(message) == message = <<>>

\* line 177: `not message or not message.strip()`
Blank(message) == message = <<>> \/ Strip(message) = <<>>

EffectiveMode_NoLower(md, env) ==
    IF md # "" THEN md
    ELSE IF env.ENSEMBLE_MODE # Unset THEN env.ENSEMBLE_MODE
    ELSE "committee"

\* line 180: (mode or os.getenv("ENSEMBLE_MODE", "committee")).lower()
EffectiveMode(md, env) ==
    LowerName(IF md # "" THEN md
              ELSE IF env.ENSEMBLE_MODE # Unset THEN env.ENSEMBLE_MODE
              ELSE "committee")

\* time.time() - start: every backend call takes one unit of time
Elapsed(invs) == [secs |-> Cardinality({k \in 1..Len(invs) : ~invs[k].hit})]

\* run_ensemble up to the mode dispatch (lines 177-196)
Call(message, md, models, in_loop) ==
    /\ pc = "idle"
    /\ models = <<>> \/ environ = DefaultEnviron
    /\ req' = [message |-> message, mode |-> md, models |-> models,
               temperature |-> DefaultTemperature, max_tokens |-> ReqMaxTokens,
               in_loop |-> in_loop]
    /\ LET m == EffectiveMode(md, environ)
           p == ResolvePool(models, environ)
       IN  IF Blank(message)
           THEN /\ result' = [response |-> <<"Empty query received">>,
                              meta |-> [error |-> <<"Empty query">>]]
                /\ pc' = "done"
                /\ UNCHANGED <<mode, pool, meta>>
           ELSE IF p = <<>>
           THEN /\ result' = [response |-> _get_fallback_response(message),
                              meta |-> [error |-> <<"No models available">>]]
                /\ pc' = "done"
                /\ mode' = m
                /\ pool' = p
                /\ UNCHANGED meta
           ELSE /\ mode' = m
                /\ pool' = p
                /\ meta' = [mode |-> m, candidates |-> <<>>, chosen |-> None,
                            elapsed_s |-> None, confidence |-> None]
                /\ pc' = IF m \in {"router", "cascade"} THEN m ELSE "committee"
                /\ UNCHANGED result
    /\ UNCHANGED <<environ, cache, i, candidates, best, invocations>>
    /\ UNCHANGED NotEnsemble

\* the record kept of one call of _cached_model_call; outcome is what the
\* backend does if the call reaches it
Invocation(role, pos, m, r, outcome) ==
    [role |-> role, pos |-> pos, model |-> m, hit |-> r.hit,
     raised |-> r.raised, failed |-> r.failed, text |-> r.text,
     outcome |-> outcome]

MemberKey(m) ==
    <<m.provider, m.model, req.message, req.temperature, req.max_tokens>>

\* the router branch (lines 199-212) and the outer handler (lines 300-302)
RouterStep ==
    /\ pc = "router"
    /\ \E outcome \in MemberOutcomes :
        LET choice == _router_choice(req.message, pool)
            r == _cached_model_call(cache, MemberKey(choice), req.in_loop, outcome)
            invs == Append(invocations, Invocation("member", 0, choice, r, outcome))
            meta2 == [meta EXCEPT !.chosen = choice,
                                  !.confidence = _calculate_confidence(req.message, r.text),
                                  !.elapsed_s = Elapsed(invs)]
            meta3 == SetKey(meta2, "winner",
                            [provider |-> choice.provider, model |-> choice.model])
        IN  /\ cache' = r.cache
            /\ invocations' = invs
            /\ IF r.raised
               THEN /\ result' = [response |-> _get_fallback_response(req.message),
                                  meta |-> [error |-> r.exc, mode |-> mode]]
                    /\ UNCHANGED meta
               ELSE /\ result' = [response |-> r.text, meta |-> meta3]
                    /\ meta' = meta3
    /\ pc' = "done"
    /\ UNCHANGED <<environ, req, mode, pool, i, candidates, best>>
    /\ UNCHANGED NotEnsemble

\* line 232: `if score >= max_tokens: break`
ShouldBreak_Never(score, max_tokens) == FALSE

ShouldBreak(score, max_tokens) == score >= max_tokens

Better_OrEqual(score, best_score) == score >= best_score

\* line 230: `if score > best_score`
Better(score, best_score) == score > best_score

OrFallback_Never(text, message) == text

\* line 244: `best_text or _get_fallback_response(message)`
OrFallback(text, message) ==
    IF text # <<>> THEN text ELSE _get_fallback_response(message)

\* one iteration of the cascade loop (lines 218-237); the iteration that
\* leaves the loop also runs lines 238-244
CascadeStep ==
    /\ pc = "cascade"
    /\ i <= Len(pool)
    /\ \E outcome \in MemberOutcomes :
        LET m == pool[i]
            r == _cached_model_call(cache, MemberKey(m), req.in_loop, outcome)
            invs == Append(invocations, Invocation("member", i, m, r, outcome))
            score == CharLen(Strip(r.text))
            confidence == _calculate_confidence(req.message, r.text)
            diag == IF r.raised THEN [model |-> m, error |-> r.exc]
                    ELSE [model |-> m, len |-> score, confidence |-> confidence]
            best2 == IF ~r.raised /\ Better(score, best.score)
                     THEN [text |-> r.text, score |-> score, model |-> m]
                     ELSE best
            leave == (~r.raised /\ ShouldBreak(score, req.max_tokens)) \/ i = Len(pool)
            meta1 == [meta EXCEPT !.candidates = Append(@, diag)]
            meta2 == [meta1 EXCEPT !.chosen = best2.model]
            meta3 == IF best2.model # None
                     THEN SetKey(meta2, "winner",
                                 [provider |-> best2.model.provider,
                                  model |-> best2.model.model])
                     ELSE meta2
            meta4 == IF best2.text # <<>>
                     THEN [meta3 EXCEPT !.confidence =
                               _calculate_confidence(req.message, best2.text)]
                     ELSE meta3
            meta5 == [meta4 EXCEPT !.elapsed_s = Elapsed(invs)]
        IN  /\ cache' = r.cache
            /\ invocations' = invs
            /\ best' = best2
            /\ IF leave
               THEN /\ meta' = meta5
                    /\ result' = [response |-> OrFallback(best2.text, req.message),
                                  meta |-> meta5]
                    /\ pc' = "done"
                    /\ UNCHANGED i
               ELSE /\ meta' = meta1
                    /\ i' = i + 1
                    /\ UNCHANGED <<result, pc>>
    /\ UNCHANGED <<environ, req, mode, pool, candidates>>
    /\ UNCHANGED NotEnsemble

\* one iteration of the committee loop (lines 251-266); the last iteration
\* also runs lines 268-270
CommitteeStep ==
    /\ pc = "committee"
    /\ i <= Len(pool)
    /\ \E outcome \in MemberOutcomes :
        LET m == pool[i]
            label == <<m.provider, ":", m.model>>
            r == _cached_model_call(cache, MemberKey(m), req.in_loop, outcome)
            invs == Append(invocations, Invocation("member", i, m, r, outcome))
            diag == IF r.raised THEN [model |-> m, error |-> r.exc]
                    ELSE [model |-> m, len |-> CharLen(Strip(r.text)),
                          confidence |-> _calculate_confidence(req.message, r.text)]
            cands == IF r.raised THEN candidates
                     ELSE Append(candidates, [label |-> label, text |-> r.text])
            meta1 == [meta EXCEPT !.candidates = Append(@, diag)]
        IN  /\ cache' = r.cache
            /\ invocations' = invs
            /\ candidates' = cands
            /\ meta' = meta1
            /\ IF i < Len(pool)
               THEN /\ i' = i + 1
                    /\ UNCHANGED <<result, pc>>
               ELSE IF cands = <<>>
               THEN /\ result' = [response |-> _get_fallback_response(req.message),
                                  meta |-> meta1]
                    /\ pc' = "done"
                    /\ UNCHANGED i
               ELSE /\ pc' = "judge"
                    /\ UNCHANGED <<result, i>>
    /\ UNCHANGED <<environ, req, mode, pool, best>>
    /\ UNCHANGED NotEnsemble

\* lines 247-248 with no judge argument and no judge variable in os.environ
judge_provider == "openai"
judge_model == "gpt-4o"

\* lines 272-298: the judge call, the guardrail and the return
JudgeStep ==
    /\ pc = "judge"
    /\ \E outcome \in JudgeOutcomes :
        LET key == <<judge_provider, judge_model,
                     JudgePrompt(req.message, candidates),
                     Min(JudgeTemperatureCap, req.temperature), JudgeMaxTokens>>
            r == _cached_model_call(cache, key, req.in_loop, outcome)
            invs == Append(invocations,
                           Invocation("judge", 0,
                                      [provider |-> judge_provider, model |-> judge_model],
                                      r, outcome))
            pick == Pick(req.message, candidates, r)
            meta1 == IF pick.guard THEN SetKey(meta, "chosen_fallback", "non_empty_best")
                     ELSE meta
            meta2 == WithWinner(meta1, pick.label)
            meta3 == [meta2 EXCEPT
                        !.chosen = [provider |-> judge_provider, model |-> judge_model,
                                    role |-> "judge"],
                        !.confidence = _calculate_confidence(req.message, pick.text),
                        !.elapsed_s = Elapsed(invs)]
        IN  /\ cache' = r.cache
            /\ invocations' = invs
            /\ meta' = meta3
            /\ result' = [response |-> pick.text, meta |-> meta3]
    /\ pc' = "done"
    /\ UNCHANGED <<environ, req, mode, pool, i, candidates, best>>
    /\ UNCHANGED NotEnsemble

Next ==
    \/ \E message \in Messages, md \in Modes, models \in Pools, in_loop \in BOOLEAN :
          Call(message, md, models, in_loop)
    \/ RouterStep
    \/ CascadeStep
    \/ CommitteeStep
    \/ JudgeStep

Spec == Init /\ [][Next]_vars

\* ------------------------------------------------------------------------
\* run_ensemble under a transport that signals cancellation
\* ------------------------------------------------------------------------

\* a process configured with a two-member pool
CsvEnviron ==
    [DefaultEnviron EXCEPT !.ENSEMBLE_MODE = "Cascade", !.ENSEMBLE_MODELS = CsvGood]

InitCancel ==
    /\ Init
    /\ environ = CsvEnviron

\* the client of the transport asks to cancel the running request
\* (commander.py:255-269 runs run_ensemble inside the /ws handler; ensemble.py
\* has no parameter and no flag through which the signal could be read)
SignalCancel ==
    /\ pc \in {"router", "cascade", "committee", "judge"}
    /\ ~cancel_requested
    /\ cancel_requested' = TRUE
    /\ UNCHANGED <<vars, scoreVars, first_timeout, wsVars, sseVars, lateVars>>

NextCancel ==
    \/ \E message \in Messages, md \in Modes, models \in Pools, in_loop \in BOOLEAN :
          Call(message, md, models, in_loop)
    \/ RouterStep
    \/ CascadeStep
    \/ CommitteeStep
    \/ JudgeStep
    \/ SignalCancel

SpecCancel == InitCancel /\ [][NextCancel]_allVars

\* ------------------------------------------------------------------------
\* run_ensemble called twice with the same request, the same backend
\* outcomes and the same cache, and two values of timeout
\* ------------------------------------------------------------------------

Timeouts == { 1, DefaultTimeout }

InitTimeout ==
    /\ environ = CsvEnviron
    /\ cache = <<>>
    /\ pc = "idle"
    /\ req = None
    /\ mode = ""
    /\ pool = <<>>
    /\ i = 1
    /\ candidates = <<>>
    /\ best = NoBest
    /\ meta = None
    /\ result = None
    /\ invocations = <<>>
    /\ ScoreIdle
    /\ first_timeout = FIRST_TIMEOUT
    /\ WsIdle
    /\ SseIdle
    /\ cancel_requested = FALSE
    /\ CacheIdle
    /\ AgentIdle
    /\ timeout \in Timeouts
    /\ tm_first = None

\* the second call is given the arguments of the first one
Request(message, md, models, in_loop) ==
    /\ tm_first # None =>
          /\ message = tm_first.req.message
          /\ md = tm_first.req.mode
          /\ models = tm_first.req.models
          /\ in_loop = tm_first.req.in_loop
    /\ Call(message, md, models, in_loop)

\* the backends of the second call do what they did in the first one
Lockstep ==
    tm_first # None =>
        /\ Len(invocations') <= Len(tm_first.invocations)
        /\ \A k \in 1..Len(invocations') :
              invocations'[k].outcome = tm_first.invocations[k].outcome

\* the first call has returned; the process is put back where it started,
\* with the cache the first call found, and the other timeout is passed
Replay ==
    /\ pc = "done"
    /\ tm_first = None
    /\ tm_first' = [req |-> req, invocations |-> invocations, result |-> result]
    /\ timeout' \in Timeouts \ {timeout}
    /\ cache' = <<>>
    /\ pc' = "idle"
    /\ req' = None
    /\ mode' = ""
    /\ pool' = <<>>
    /\ i' = 1
    /\ candidates' = <<>>
    /\ best' = NoBest
    /\ meta' = None
    /\ result' = None
    /\ invocations' = <<>>
    /\ UNCHANGED <<environ, scoreVars, first_timeout, wsVars, sseVars,
                   cancel_requested, cacheVars, agentVars>>

NextTimeout ==
    \/ \E message \in Messages, md \in Modes, models \in Pools, in_loop \in BOOLEAN :
          Request(message, md, models, in_loop)
    \/ RouterStep /\ Lockstep
    \/ CascadeStep /\ Lockstep
    \/ CommitteeStep /\ Lockstep
    \/ JudgeStep /\ Lockstep
    \/ Replay

SpecTimeout == InitTimeout /\ [][NextTimeout]_allVars

\* ------------------------------------------------------------------------
\* _calculate_confidence applied to bounded questions and responses
\* ------------------------------------------------------------------------

\* longest response built from ScoreTokens
MaxScoreLen == 3

ScoreTokens == {" ", "ok", "Sorry", "error"}

\* responses with four and five indicator phrases, and with five and seven
\* words per question word
LongResponses ==
    { <<"Sorry", " ", "error", " ", "unable", " ", "cannot">>,
      <<"Sorry", " ", "error", " ", "unable", " ", "cannot", " ",
        "as", " ", "an", " ", "ai">>,
      <<"ok", " ", "ok", " ", "ok", " ", "ok", " ", "ok">>,
      <<"ok", " ", "ok", " ", "ok", " ", "ok", " ", "ok", " ", "ok", " ", "ok">> }

ScoreResponses ==
    UNION { [1..n -> ScoreTokens] : n \in 0..MaxScoreLen } \cup LongResponses

ScoreQuestions ==
    { <<>>, <<" ">>, <<"hi">>, <<"my", " ", "TAX">>, <<LongTok, " ", "a", " ", "b">> }

\* the ensemble has not been called
EnsembleIdle ==
    /\ environ = DefaultEnviron
    /\ cache = <<>>
    /\ pc = "idle"
    /\ req = None
    /\ mode = ""
    /\ pool = <<>>
    /\ i = 1
    /\ candidates = <<>>
    /\ best = NoBest
    /\ meta = None
    /\ result = None
    /\ invocations = <<>>

InitScore ==
    /\ EnsembleIdle
    /\ first_timeout = FIRST_TIMEOUT
    /\ WsIdle
    /\ SseIdle
    /\ cancel_requested = FALSE
    /\ LateIdle
    /\ sc_question \in ScoreQuestions
    /\ sc_response \in ScoreResponses
    /\ sc_confidence = None

\* the call _calculate_confidence(question, response)
Score ==
    /\ sc_confidence = None
    /\ sc_confidence' = _calculate_confidence(sc_question, sc_response)
    /\ UNCHANGED <<sc_question, sc_response, vars, first_timeout, wsVars, sseVars,
                   cancel_requested, lateVars>>

NextScore == Score

SpecScore == InitScore /\ [][NextScore]_allVars

\* ------------------------------------------------------------------------
\* commander.py: the /ws handler, streamed requests and their cancel frames
\* ------------------------------------------------------------------------

\* streamed requests of one connection
MaxRequests == 2
\* cancel frames the client sends during one streamed request
MaxCancels == 2
\* chunks one stream yields
MaxChunks == 2

WsIds == {"t1", "t2"}

\* a chunk that starts with "[agent-error]"
ErrorChunk == AgentErrorTag

\* what stream_agent may yield before it ends
WsScripts == UNION { [1..n -> {"chunk", ErrorChunk}] : n \in 0..MaxChunks }

\* websocket.send_json of one frame of request number n
Frame(kind, n) == [kind |-> kind, req |-> n]

NotWs == <<vars, scoreVars, first_timeout, sseVars, cancel_requested, lateVars>>

\* the client sends a streamed request ({"id":..., "message":..., "stream": true})
WsClientRequest(id) ==
    /\ ws_pc = "receive"
    /\ ws_inbox = <<>>
    /\ ws_client.sent < MaxRequests
    /\ ws_inbox' = Append(ws_inbox, [type |-> "chat", id |-> id])
    /\ ws_client' = [sent |-> ws_client.sent + 1, cancels |-> 0, cancelled |-> FALSE]
    /\ UNCHANGED <<ws_pc, ws_sent, ws_data, cancel_event, listener_task, agen,
                   first_chunk, ws_waited>>
    /\ UNCHANGED NotWs

\* the client sends {"type": "cancel", "id": id} while its request is streamed
WsClientCancel(id) ==
    /\ ws_pc \in {"top", "anext"}
    /\ ws_client.cancels < MaxCancels
    /\ ws_inbox' = Append(ws_inbox, [type |-> "cancel", id |-> id])
    /\ ws_client' = [ws_client EXCEPT !.cancels = @ + 1,
                                      !.cancelled = @ \/ id = ws_data.id]
    /\ UNCHANGED <<ws_pc, ws_sent, ws_data, cancel_event, listener_task, agen,
                   first_chunk, ws_waited>>
    /\ UNCHANGED NotWs

\* lines 202-213 and 271-302: the handler receives a message. A streamed
\* request starts the listener and the generator (script is what the backend
\* will yield, raises whether client construction fails); a frame without
\* "stream" gets a one-shot response (lines 343-349).
WsReceive ==
    /\ ws_pc = "receive"
    /\ ws_inbox # <<>>
    /\ ws_inbox' = Tail(ws_inbox)
    /\ IF Head(ws_inbox).type = "chat"
       THEN /\ ws_sent' = Append(ws_sent, Frame("stream", ws_client.sent))
            /\ ws_data' = Head(ws_inbox)
            /\ cancel_event' = FALSE
            /\ listener_task' = "listening"
            /\ \E script \in WsScripts, raises \in BOOLEAN :
                  agen' = [state |-> IF raises THEN "raises" ELSE "running",
                           left |-> script]
            /\ first_chunk' = TRUE
            /\ ws_waited' = 0
            /\ ws_pc' = "top"
       ELSE /\ ws_sent' = Append(ws_sent, Frame("response", ws_client.sent))
            /\ UNCHANGED <<ws_data, cancel_event, listener_task, agen, first_chunk,
                           ws_waited, ws_pc>>
    /\ UNCHANGED ws_client
    /\ UNCHANGED NotWs

\* listen_cancel (lines 279-294): one receive_text() of the listener
WsListen ==
    /\ listener_task = "listening"
    /\ ws_inbox # <<>>
    /\ ws_inbox' = Tail(ws_inbox)
    /\ IF Head(ws_inbox).type = "cancel" /\ Head(ws_inbox).id = ws_data.id
       THEN cancel_event' = TRUE /\ listener_task' = "done"
       ELSE UNCHANGED <<cancel_event, listener_task>>
    /\ UNCHANGED <<ws_pc, ws_sent, ws_data, agen, first_chunk, ws_waited, ws_client>>
    /\ UNCHANGED NotWs

\* leaving the streaming loop: the finally clause (lines 340-342) and back to
\* receive_text() at line 202
WsLeave ==
    /\ listener_task' = IF listener_task = "listening" THEN "cancelled"
                        ELSE listener_task
    /\ ws_pc' = "receive"
    /\ ws_data' = None
    /\ agen' = NoStream

\* lines 304-306: the test of cancel_event at the top of the loop
WsTop ==
    /\ ws_pc = "top"
    /\ IF cancel_event
       THEN WsLeave /\ UNCHANGED ws_sent
       ELSE /\ ws_pc' = "anext"
            /\ UNCHANGED <<ws_sent, ws_data, listener_task, agen>>
    /\ UNCHANGED <<ws_inbox, cancel_event, first_chunk, ws_waited, ws_client>>
    /\ UNCHANGED NotWs

\* lines 317-323 and 329-335: the one-shot fallback, call_agent answering or
\* raising, then the done frame
WsFallback(ok) ==
    ws_sent' = ws_sent \o <<Frame(IF ok THEN "response" ELSE "error", ws_client.sent),
                            Frame("done", ws_client.sent)>>

\* lines 307-339: wait_for(aiter.__anext__(), 1.0) returns or raises
WsAnext ==
    /\ ws_pc = "anext"
    /\ \/ \* _lazy_client raises at the first __anext__: lines 350-353
          /\ agen.state = "raises"
          /\ ws_sent' = Append(ws_sent, Frame("error", ws_client.sent))
          /\ WsLeave
          /\ UNCHANGED <<first_chunk, ws_waited>>
       \/ \* a chunk
          /\ agen.state = "running"
          /\ agen.left # <<>>
          /\ IF first_chunk /\ Head(agen.left) = ErrorChunk
             THEN /\ \E ok \in BOOLEAN : WsFallback(ok)
                  /\ WsLeave
                  /\ UNCHANGED first_chunk
             ELSE /\ ws_sent' = Append(ws_sent, Frame("delta", ws_client.sent))
                  /\ first_chunk' = FALSE
                  /\ agen' = [agen EXCEPT !.left = Tail(@)]
                  /\ ws_pc' = "top"
                  /\ UNCHANGED <<ws_data, listener_task>>
          /\ UNCHANGED ws_waited
       \/ \* StopAsyncIteration
          /\ agen.state \in {"running", "closed"}
          /\ agen.left = <<>>
          /\ ws_sent' = Append(ws_sent, Frame("done", ws_client.sent))
          /\ WsLeave
          /\ UNCHANGED <<first_chunk, ws_waited>>
       \/ \* TimeoutError: wait_for cancelled __anext__, which ends the generator
          /\ agen.state = "running"
          /\ ws_waited' = ws_waited + 1
          /\ IF first_chunk /\ ws_waited + 1 > first_timeout
             THEN /\ \E ok \in BOOLEAN : WsFallback(ok)
                  /\ WsLeave
             ELSE /\ agen' = NoStream
                  /\ ws_pc' = "top"
                  /\ UNCHANGED <<ws_sent, ws_data, listener_task>>
          /\ UNCHANGED first_chunk
    /\ UNCHANGED <<ws_inbox, cancel_event, ws_client>>
    /\ UNCHANGED NotWs

InitWs ==
    /\ EnsembleIdle
    /\ ScoreIdle
    /\ first_timeout \in {0, FIRST_TIMEOUT}
    /\ WsIdle
    /\ SseIdle
    /\ cancel_requested = FALSE
    /\ LateIdle

NextWs ==
    \/ \E id \in WsIds : WsClientRequest(id)
    \/ \E id \in WsIds : WsClientCancel(id)
    \/ WsReceive
    \/ WsListen
    \/ WsTop
    \/ WsAnext

SpecWs == InitWs /\ [][NextWs]_allVars

\* the event loop runs every task that can run
FairSpecWs ==
    /\ SpecWs
    /\ WF_allVars(WsReceive)
    /\ WF_allVars(WsListen)
    /\ WF_allVars(WsTop)
    /\ WF_allVars(WsAnext)

\* ------------------------------------------------------------------------
\* routes_sse.py: eventgen, its stream task and its ping task
\* ------------------------------------------------------------------------

\* pings ping_task puts during one request
MaxPings == 2
\* deltas one stream yields
MaxDeltas == 2

\* what stream_agent may yield; it then ends, or raises when raises is TRUE
SseScripts == UNION { [1..n -> {"hello ", "world", ErrorChunk}] : n \in 0..MaxDeltas }

Event(name) == [event |-> name]
Delta(text) == [event |-> "delta", data |-> text]
Done(fallback) == [event |-> "done", fallback |-> fallback]

NotSse == <<vars, scoreVars, first_timeout, wsVars, cancel_requested, lateVars>>

\* lines 74-104: the meta event, then the two tasks are created
SseStart ==
    /\ sse_pc = "start"
    /\ sse_out' = Append(sse_out, Event("meta"))
    /\ \E script \in SseScripts, raises \in BOOLEAN :
          sse_stream' = [state |-> "running", left |-> script, raises |-> raises]
    /\ sse_ping' = "test"
    /\ sse_pc' = "loop"
    /\ UNCHANGED <<sse_q, sse_done, sse_first, sse_waited, sse_produced, sse_pings>>
    /\ UNCHANGED NotSse

\* stream_task, lines 85-86: stream_agent yields a delta
SseStreamDelta ==
    /\ sse_stream.state = "running"
    /\ sse_stream.left # <<>>
    /\ sse_q' = Append(sse_q, [kind |-> "delta", payload |-> Head(sse_stream.left)])
    /\ sse_produced' = Append(sse_produced, Head(sse_stream.left))
    /\ sse_stream' = [sse_stream EXCEPT !.left = Tail(@)]
    /\ UNCHANGED <<sse_pc, sse_done, sse_ping, sse_out, sse_first, sse_waited, sse_pings>>
    /\ UNCHANGED NotSse

\* stream_task, lines 87-91: stream_agent ends or raises; the puts and
\* done.set() run without suspension (the queue is unbounded)
SseStreamEnd ==
    /\ sse_stream.state = "running"
    /\ sse_stream.left = <<>>
    /\ sse_q' = sse_q
                \o (IF sse_stream.raises
                    THEN <<[kind |-> "error", payload |-> ErrorChunk]>> ELSE <<>>)
                \o <<[kind |-> "done", payload |-> None]>>
    /\ sse_done' = TRUE
    /\ sse_stream' = [sse_stream EXCEPT !.state = "finished"]
    /\ UNCHANGED <<sse_pc, sse_ping, sse_out, sse_first, sse_waited, sse_produced,
                   sse_pings>>
    /\ UNCHANGED NotSse

\* ping_task, line 95: the test of the loop
SsePingTest ==
    /\ sse_ping = "test"
    /\ sse_ping' = IF sse_done THEN "exited" ELSE "sleeping"
    /\ UNCHANGED <<sse_pc, sse_q, sse_done, sse_stream, sse_out, sse_first, sse_waited,
                   sse_produced, sse_pings>>
    /\ UNCHANGED NotSse

\* ping_task, lines 96-97: sleep(5) is over and the ping is put
SsePingPut ==
    /\ sse_ping = "sleeping"
    /\ sse_pings < MaxPings
    /\ sse_q' = Append(sse_q, [kind |-> "ping", payload |-> "{}"])
    /\ sse_pings' = sse_pings + 1
    /\ sse_ping' = "test"
    /\ UNCHANGED <<sse_pc, sse_done, sse_stream, sse_out, sse_first, sse_waited,
                   sse_produced>>
    /\ UNCHANGED NotSse

\* the finally clause (lines 151-154) and the end of the generator
SseClose ==
    /\ sse_pc' = "closed"
    /\ sse_stream' = [sse_stream EXCEPT
                         !.state = IF @ = "running" THEN "cancelled" ELSE @]
    /\ sse_ping' = IF sse_ping \in {"test", "sleeping"} THEN "cancelled" ELSE sse_ping

SseItemEnds_Never(kind) == FALSE

\* lines 144-150: the done item ends the loop
SseItemEnds(kind) == kind = "done"

\* lines 108 and 125-150: q.get() returns an item
SseGet ==
    /\ sse_pc = "loop"
    /\ sse_q # <<>>
    /\ sse_q' = Tail(sse_q)
    /\ LET kind == Head(sse_q).kind
           payload_s == Head(sse_q).payload
       IN  IF kind = "delta" /\ sse_first /\ payload_s = ErrorChunk
           THEN /\ sse_pc' = "fallback_error"
                /\ UNCHANGED <<sse_out, sse_first, sse_stream, sse_ping>>
           ELSE IF SseItemEnds(kind)
           THEN /\ sse_out' = Append(sse_out, Done("none"))
                /\ SseClose
                /\ UNCHANGED sse_first
           ELSE /\ sse_out' = Append(sse_out,
                                     IF kind = "ping" THEN Event("ping")
                                     ELSE IF kind = "done" THEN Done("none")
                                     ELSE Delta(payload_s))
                /\ sse_first' = (sse_first /\ kind # "delta")
                /\ UNCHANGED <<sse_pc, sse_stream, sse_ping>>
    /\ UNCHANGED <<sse_done, sse_waited, sse_produced, sse_pings>>
    /\ UNCHANGED NotSse

\* lines 109-123: q.get() timed out after one second with first still set
\* (with first cleared the timeout changes nothing)
SseTimeout ==
    /\ sse_pc = "loop"
    /\ sse_q = <<>>
    /\ sse_first
    /\ sse_waited' = sse_waited + 1
    /\ sse_pc' = IF sse_waited + 1 > first_timeout THEN "fallback_timeout" ELSE "loop"
    /\ UNCHANGED <<sse_q, sse_done, sse_stream, sse_ping, sse_out, sse_first,
                   sse_produced, sse_pings>>
    /\ UNCHANGED NotSse

\* lines 112-122 and 130-136: call_agent returns (ok) or raises, the text is
\* sent as one delta, then done
SseFallback(ok) ==
    /\ sse_pc \in {"fallback_timeout", "fallback_error"}
    /\ sse_out' = sse_out
                  \o <<Delta(IF ok THEN "one-shot" ELSE ErrorChunk),
                       Done(IF sse_pc = "fallback_timeout" THEN "timeout"
                            ELSE "agent-error")>>
    /\ SseClose
    /\ UNCHANGED <<sse_q, sse_done, sse_first, sse_waited, sse_produced, sse_pings>>
    /\ UNCHANGED NotSse

InitSse ==
    /\ EnsembleIdle
    /\ ScoreIdle
    /\ first_timeout \in {0, FIRST_TIMEOUT}
    /\ WsIdle
    /\ SseIdle
    /\ cancel_requested = FALSE
    /\ LateIdle

NextSse ==
    \/ SseStart
    \/ SseStreamDelta
    \/ SseStreamEnd
    \/ SsePingTest
    \/ SsePingPut
    \/ SseGet
    \/ SseTimeout
    \/ \E ok \in BOOLEAN : SseFallback(ok)

SpecSse == InitSse /\ [][NextSse]_allVars

\* the server pulls the generator, the event loop runs the stream task, the
\* backend stream ends (it has a request timeout), call_agent returns
FairSpecSse ==
    /\ SpecSse
    /\ WF_allVars(SseStart)
    /\ WF_allVars(SseStreamDelta)
    /\ WF_allVars(SseStreamEnd)
    /\ WF_allVars(SseGet)
    /\ WF_allVars(SseTimeout)
    /\ WF_allVars(\E ok \in BOOLEAN : SseFallback(ok))

\* ------------------------------------------------------------------------
\* agent.py: stream_agent, its run_stream thread and the event loop
\* ------------------------------------------------------------------------

\* events one provider stream delivers
MaxEvents == 2

\* the text of the events of a provider stream; "" is an event without text
AgentScripts == UNION { [1..n -> {"hello ", "world", ""}] : n \in 0..MaxEvents }

\* queue items: a str, or None for the end of the stream
Chunk(text) == [end |-> FALSE, text |-> text]
EndMarker == [end |-> TRUE, text |-> ""]

NotAgent ==
    <<vars, scoreVars, first_timeout, wsVars, sseVars, cancel_requested, cacheVars,
      timeoutVars>>

\* lines 206-335, run by the first __anext__: _lazy_client raises (ok is
\* FALSE) or the thread is started and the generator waits at line 338
SaStart(script, raises, ok) ==
    /\ sa_pc = "start"
    /\ IF ok
       THEN /\ sa_thread' = [state |-> "running", left |-> script, raises |-> raises]
            /\ sa_pc' = "get"
       ELSE /\ sa_pc' = "raised"
            /\ UNCHANGED sa_thread
    /\ UNCHANGED <<sa_ready, sa_queue, sa_out, sa_produced>>
    /\ UNCHANGED NotAgent

\* one event of the provider stream: `if delta: loop.call_soon_threadsafe(...)`
SaDelta ==
    /\ sa_thread.state = "running"
    /\ sa_thread.left # <<>>
    /\ LET delta == Head(sa_thread.left)
       IN  IF delta # ""
           THEN /\ sa_ready' = Append(sa_ready, Chunk(delta))
                /\ sa_produced' = Append(sa_produced, delta)
           ELSE UNCHANGED <<sa_ready, sa_produced>>
    /\ sa_thread' = [sa_thread EXCEPT !.left = Tail(@)]
    /\ UNCHANGED <<sa_pc, sa_queue, sa_out>>
    /\ UNCHANGED NotAgent

\* the provider stream is exhausted, or raises in place of a next event
SaStreamEnds ==
    /\ sa_thread.state = "running"
    /\ sa_thread.left = <<>>
    /\ sa_thread' = [sa_thread EXCEPT
                        !.state = IF sa_thread.raises THEN "except" ELSE "finally"]
    /\ UNCHANGED <<sa_pc, sa_ready, sa_queue, sa_out, sa_produced>>
    /\ UNCHANGED NotAgent

\* lines 330-331
SaExcept ==
    /\ sa_thread.state = "except"
    /\ sa_ready' = Append(sa_ready, Chunk(ErrorChunk))
    /\ sa_thread' = [sa_thread EXCEPT !.state = "finally"]
    /\ UNCHANGED <<sa_pc, sa_queue, sa_out, sa_produced>>
    /\ UNCHANGED NotAgent

PutMarker_Dropped(ready) == ready

\* line 333: loop.call_soon_threadsafe(queue.put_nowait, None)
PutMarker(ready) == Append(ready, EndMarker)

\* lines 332-333, then the thread exits
SaFinally ==
    /\ sa_thread.state = "finally"
    /\ sa_ready' = PutMarker(sa_ready)
    /\ sa_thread' = [sa_thread EXCEPT !.state = "exited"]
    /\ UNCHANGED <<sa_pc, sa_queue, sa_out, sa_produced>>
    /\ UNCHANGED NotAgent

\* the event loop runs the oldest scheduled callback: queue.put_nowait(item)
SaCallback ==
    /\ sa_ready # <<>>
    /\ sa_queue' = Append(sa_queue, Head(sa_ready))
    /\ sa_ready' = Tail(sa_ready)
    /\ UNCHANGED <<sa_pc, sa_thread, sa_out, sa_produced>>
    /\ UNCHANGED NotAgent

\* lines 337-341: queue.get() returns; break on None, else yield
SaGet ==
    /\ sa_pc = "get"
    /\ sa_queue # <<>>
    /\ LET chunk == Head(sa_queue)
       IN  IF chunk.end
           THEN /\ sa_pc' = "stopped"
                /\ UNCHANGED sa_out
           ELSE /\ sa_out' = Append(sa_out, chunk.text)
                /\ UNCHANGED sa_pc
    /\ sa_queue' = Tail(sa_queue)
    /\ UNCHANGED <<sa_thread, sa_ready, sa_produced>>
    /\ UNCHANGED NotAgent

InitAgent ==
    /\ EnsembleIdle
    /\ ScoreIdle
    /\ first_timeout = FIRST_TIMEOUT
    /\ WsIdle
    /\ SseIdle
    /\ cancel_requested = FALSE
    /\ LateIdle

NextAgent ==
    \/ \E script \in AgentScripts, raises \in BOOLEAN, ok \in BOOLEAN :
          SaStart(script, raises, ok)
    \/ SaDelta
    \/ SaStreamEnds
    \/ SaExcept
    \/ SaFinally
    \/ SaCallback
    \/ SaGet

SpecAgent == InitAgent /\ [][NextAgent]_allVars

\* the caller keeps iterating, the thread is scheduled and the provider
\* stream ends or raises, and the event loop runs its callbacks
FairSpecAgent ==
    /\ SpecAgent
    /\ WF_allVars(\E script \in AgentScripts, raises \in BOOLEAN, ok \in BOOLEAN :
                     SaStart(script, raises, ok))
    /\ WF_allVars(SaDelta)
    /\ WF_allVars(SaStreamEnds)
    /\ WF_allVars(SaExcept)
    /\ WF_allVars(SaFinally)
    /\ WF_allVars(SaCallback)
    /\ WF_allVars(SaGet)

\* ------------------------------------------------------------------------
\* One process calling _cached_model_call again and again (ensemble.py:89-97)
\* ------------------------------------------------------------------------

MaxCacheCalls == 2

\* the key of the n-th question of the warm-up
WarmKey(n) ==
    <<"openai", "gpt-4o", <<"question", " ", ToString(n)>>, DefaultTemperature,
      ReqMaxTokens>>

\* keys of later calls: questions asked early, late and never before, and
\* keys that differ from the first question's in one component only
CacheKeys ==
    { WarmKey(1), WarmKey(2), WarmKey(maxsize), WarmKey(maxsize + 1),
      <<"groq", "gpt-4o", WarmKey(1)[3], DefaultTemperature, ReqMaxTokens>>,
      <<"openai", "gpt-4o-mini", WarmKey(1)[3], DefaultTemperature, ReqMaxTokens>>,
      <<"openai", "gpt-4o", WarmKey(1)[3], 0, ReqMaxTokens>>,
      <<"openai", "gpt-4o", WarmKey(1)[3], DefaultTemperature, JudgeMaxTokens>> }

CacheOutcomes == { ClientError, ApiError, Answer(<<"ok">>) }

NotCache ==
    <<environ, pc, req, mode, pool, i, candidates, best, meta, result, invocations,
      scoreVars, first_timeout, wsVars, sseVars, cancel_requested, timeoutVars,
      agentVars>>

\* _cached_model_call(*key) with the backend doing `outcome`
CachedCall(key, in_loop, outcome) ==
    LET r == _cached_model_call(cache, key, in_loop, outcome)
    IN  /\ cache' = r.cache
        /\ cc_last' = [key |-> key, kind |-> outcome.kind, before |-> cache,
                       hit |-> r.hit, raised |-> r.raised, text |-> r.text]
        /\ cc_used' = IF r.raised THEN cc_used
                      ELSE [clock |-> cc_used.clock + 1,
                            at |-> (key :> cc_used.clock + 1) @@ cc_used.at]
        /\ UNCHANGED NotCache

\* the first maxsize questions, each new and answered
CacheWarm ==
    /\ cc_calls = 0
    /\ Len(cache) < maxsize
    /\ CachedCall(WarmKey(Len(cache) + 1), FALSE, Answer(<<"ok">>))
    /\ UNCHANGED cc_calls

CacheCall(key, in_loop, outcome) ==
    /\ Len(cache) >= maxsize - 1
    /\ cc_calls < MaxCacheCalls
    /\ cc_calls' = cc_calls + 1
    /\ CachedCall(key, in_loop, outcome)

InitCache ==
    /\ EnsembleIdle
    /\ ScoreIdle
    /\ first_timeout = FIRST_TIMEOUT
    /\ WsIdle
    /\ SseIdle
    /\ cancel_requested = FALSE
    /\ LateIdle

NextCache ==
    \/ CacheWarm
    \/ \E key \in CacheKeys, in_loop \in BOOLEAN, outcome \in CacheOutcomes :
          CacheCall(key, in_loop, outcome)

SpecCache == InitCache /\ [][NextCache]_allVars

\* ------------------------------------------------------------------------
\* Properties
\* ------------------------------------------------------------------------

\* run_ensemble has returned for a message that is not blank
Returned == pc = "done" /\ Strip(req.message) # <<>>

\* the request runs the committee branch
InCommittee == pc \in {"committee", "judge"} \/ (Returned /\ mode \notin {"router", "cascade"})

\* the request runs the cascade branch
InCascade == pc = "cascade" \/ (Returned /\ mode = "cascade")

\* positions in invocations of the calls made for pool members
MemberCalls == {k \in 1..Len(invocations) : invocations[k].role = "member"}

\* the judge was called in this request
JudgeCalled ==
    invocations # <<>> /\ invocations[Len(invocations)].role = "judge"

\* C1 (as stated): for every non-blank message, non-empty pool and mode
\* string, the result carries meta.mode equal to the lower-cased requested
\* mode.
C1_Original ==
    (Returned /\ pool # <<>>) =>
        /\ "mode" \in DOMAIN result.meta
        /\ result.meta.mode = LowerName(req.mode)

\* C1 (amended): for every non-blank message, every resolved pool, every mode
\* string and every outcome of the invocations, run_ensemble returns a
\* {response, meta} result whose meta.mode is the lower-cased requested mode
\* when that string is not empty, and the lower-cased ENSEMBLE_MODE value
\* ("committee" when unset) when it is empty.
C1_ModeNormalized ==
    Returned =>
        /\ {"response", "meta"} \subseteq DOMAIN result
        /\ "mode" \in DOMAIN result.meta
        /\ result.meta.mode =
              IF req.mode # "" THEN LowerName(req.mode)
              ELSE IF environ.ENSEMBLE_MODE # Unset
                   THEN LowerName(environ.ENSEMBLE_MODE)
                   ELSE "committee"

\* a mixed-case mode was requested and the only invocation raised
C1_Witness ==
    /\ Returned
    /\ req.mode = "Router"
    /\ result.meta.mode = "router"
    /\ Len(invocations) = 1 /\ invocations[1].raised

\* C2: a call with an empty or blank message returns "Empty query received"
\* in its first step, makes no model invocation and leaves the cache as it
\* was, whatever the mode, the pool and the environment are.
C2_EmptyQuery ==
    [][(pc = "idle" /\ Strip(req'.message) = <<>>) =>
          /\ pc' = "done"
          /\ result'.response = <<"Empty query received">>
          /\ invocations' = <<>>
          /\ cache' = cache]_vars

\* a blank (not empty) message with a mode and an explicit pool
C2_Witness ==
    /\ pc = "done"
    /\ req.message = <<" ">>
    /\ req.mode = "cascade"
    /\ Len(req.models) = 2
    /\ result.response = <<"Empty query received">>
    /\ invocations = <<>>

C4_CascadeEarlyExit ==
    InCascade =>
        \A a \in 1..Len(invocations) :
            /\ invocations[a].pos = a
            /\ (~invocations[a].raised
                /\ CharLen(Strip(invocations[a].text)) >= req.max_tokens)
               => (a = Len(invocations) /\ pc = "done")

\* three members, the second one reaches max_tokens: two invocations
C4_Witness ==
    /\ Returned /\ mode = "cascade"
    /\ Len(pool) = 3
    /\ Len(invocations) = 2
    /\ CharLen(Strip(invocations[1].text)) < req.max_tokens
    /\ CharLen(Strip(invocations[2].text)) >= req.max_tokens

\* C5 (as stated): in committee mode, if all pool members but one fail, the
\* judge receives exactly the one successful candidate and the response is
\* that candidate's text.
C5_Original ==
    (Returned /\ InCommittee /\ Len(pool) >= 2) =>
        LET ok == {k \in MemberCalls : ~invocations[k].failed}
        IN  Cardinality(ok) = 1 =>
                LET k == CHOOSE k \in ok : TRUE
                IN  /\ Len(candidates) = 1
                    /\ candidates[1].text = invocations[k].text
                    /\ result.response = invocations[k].text

\* C6: in router mode, for a message with a legal/regulatory keyword and a
\* pool with an anthropic or openai entry, exactly one invocation is made,
\* to the first such entry in pool order, never to a groq or deepseek entry.
C6_RouterKeyword ==
    (/\ Returned /\ mode = "router"
     /\ \E kw \in RouterKeywords : Contains(Lower(req.message), kw)
     /\ \E k \in 1..Len(pool) : pool[k].provider \in {"anthropic", "openai"}) =>
        LET first == CHOOSE k \in 1..Len(pool) :
                        /\ pool[k].provider \in {"anthropic", "openai"}
                        /\ \A j \in 1..(k - 1) : pool[j].provider \notin {"anthropic", "openai"}
        IN  /\ Len(invocations) = 1
            /\ invocations[1].model = pool[first]
            /\ invocations[1].model.provider \notin {"groq", "deepseek"}

\* the pool starts with a groq entry and the anthropic entry behind it is called
C6_Witness ==
    /\ Returned /\ mode = "router"
    /\ req.message = <<"my", " ", "TAX">>
    /\ Len(pool) = 2
    /\ pool[1].provider = "groq"
    /\ invocations[1].model.provider = "anthropic"

\* values of ENSEMBLE_MODELS that are neither a JSON list nor provider:model CSV
Malformed == {JsonTruncated, JsonNoColon, CsvNoColon}

\* C7 (as stated): with no explicit pool, a malformed JSON string and a
\* malformed CSV string resolve to the built-in default pool: no entry
\* derived from the string is in the pool.
C7_Original ==
    (pc # "idle" /\ Strip(req.message) # <<>>
     /\ req.models = <<>> /\ environ.ENSEMBLE_MODELS \in Malformed) =>
        pool = _get_default_models(environ)

\* C8 (as stated): in committee and cascade modes a failed invocation of a
\* pool member is recorded as a failure diagnostic {model, error}, the member
\* is not the winner, and the committee still invokes every pool member.
C8_Original ==
    (InCommittee \/ InCascade) =>
        /\ \A k \in MemberCalls :
              invocations[k].failed =>
                  /\ "error" \in DOMAIN meta.candidates[k]
                  /\ pc = "done" =>
                        \/ result.response # invocations[k].text
                        \/ \E j \in MemberCalls :
                              /\ ~invocations[j].failed
                              /\ invocations[j].text = invocations[k].text
        /\ (Returned /\ InCommittee) => Cardinality(MemberCalls) = Len(pool)

\* the text make_agent returns for a caught backend error
IsErrorTagged(text) == text # <<>> /\ text[1] = AgentErrorTag

\* C9 (as stated): the response is the text of a successful candidate, the
\* canned empty-query text or the generic fallback string; backend error
\* text is never in the response.
C9_Original ==
    pc = "done" =>
        /\ ~IsErrorTagged(result.response)
        /\ \/ result.response = <<"Empty query received">>
           \/ result.response = _get_fallback_response(req.message)
           \/ \E k \in MemberCalls :
                 /\ ~invocations[k].failed
                 /\ result.response = invocations[k].text

\* C10 (as stated): no invocation of the model invoker raises into the
\* strategy engine.
C10_Original ==
    \A k \in 1..Len(invocations) : ~invocations[k].raised

\* the request took the built-in default pool: nothing valid was passed or
\* configured (lines 186-190)
UsedDefaultPool ==
    /\ pc # "idle"
    /\ ~Blank(req.message)
    /\ SelectSeq(IF req.models # <<>> THEN req.models
                 ELSE _parse_models(environ.ENSEMBLE_MODELS),
                 _validate_model_config) = <<>>

\* the API key of a provider is configured
HasKey(env, provider) ==
    CASE provider = "openai" -> env.OPENAI_API_KEY
      [] provider = "anthropic" -> env.ANTHROPIC_API_KEY
      [] provider = "groq" -> env.GROQ_API_KEY
      [] provider = "deepseek" -> env.DEEPSEEK_API_KEY

\* C11 (as stated): the default pool has an entry for a provider exactly when
\* the API key of that provider is configured; with no key configured the pool
\* stays empty and the request returns the fallback response with meta.error
\* set, without any invocation.
C11_Original ==
    UsedDefaultPool =>
        /\ \A p \in {"openai", "anthropic", "groq", "deepseek"} :
              (\E k \in 1..Len(pool) : pool[k].provider = p) <=> HasKey(environ, p)
        /\ (\A p \in {"openai", "anthropic", "groq", "deepseek"} : ~HasKey(environ, p))
              => /\ pool = <<>>
                 /\ invocations = <<>>
                 /\ pc = "done"
                 /\ result.response = _get_fallback_response(req.message)
                 /\ "error" \in DOMAIN result.meta

\* a pool entry whose provider or model is missing or the empty string
EmptyField(m) ==
    \/ "provider" \notin DOMAIN m
    \/ "model" \notin DOMAIN m
    \/ m.provider = ""
    \/ m.model = ""

\* C12 (as stated): every entry of an explicit pool whose provider or model is
\* missing or the empty string is dropped before any invocation (a pool of only
\* such entries is replaced by the default pool), and no backend call is issued
\* with an empty provider or an empty model.
C12_Original ==
    (pc # "idle" /\ ~Blank(req.message) /\ req.models # <<>>) =>
        /\ pool = IF \A k \in 1..Len(req.models) : EmptyField(req.models[k])
                  THEN _get_default_models(environ)
                  ELSE SelectSeq(req.models, LAMBDA m : ~EmptyField(m))
        /\ \A k \in 1..Len(invocations) :
              invocations[k].role = "member" => ~EmptyField(invocations[k].model)

\* the pool members the request attempted, in the order of the attempts
Attempted == SelectSeq(invocations, LAMBDA v : v.role = "member")

\* C13 (as stated): in each of the three modes, when run_ensemble returns,
\* meta.candidates holds exactly one diagnostic record per attempted pool
\* member, in the declared order of the pool.
C13_Original ==
    Returned =>
        /\ "candidates" \in DOMAIN result.meta
        /\ Len(result.meta.candidates) = Len(Attempted)
        /\ \A k \in 1..Len(Attempted) :
              /\ result.meta.candidates[k].model = Attempted[k].model
              /\ Attempted[k].model = pool[k]

\* the request returned after a judge call that raised
JudgeRaised ==
    Returned /\ JudgeCalled /\ invocations[Len(invocations)].raised

Numerals(out) ==
    {k \in 1..Len(out) :
        /\ out[k] \in DOMAIN DigitsVal
        /\ (k = 1 \/ IsSpace(out[k - 1]))
        /\ (k = Len(out) \/ IsSpace(out[k + 1]))}

C16_ConfidenceRange ==
    sc_confidence # None =>
        IF WordCount(sc_question) = 0 \/ WordCount(sc_response) = 0
        THEN sc_confidence.num = 0
        ELSE /\ sc_confidence.den > 0
             /\ 10 * sc_confidence.num >= sc_confidence.den
             /\ sc_confidence.num <= sc_confidence.den

\* a response with all five indicator phrases was scored
C16_Witness ==
    /\ sc_confidence # None
    /\ WordCount(sc_question) > 0
    /\ \A ind \in error_indicators : Contains(Lower(sc_response), ind)
    /\ 10 * sc_confidence.num >= sc_confidence.den

\* the handler sent a frame with done == true for request number n
DoneSent(n) == \E k \in 1..Len(ws_sent) : ws_sent[k] = Frame("done", n)

\* C17 (as stated): on /ws, after the client sends a cancel frame whose id
\* matches the streamed request in progress, the client eventually receives a
\* frame with done == true for that request.
C17_Original ==
    \A n \in 1..MaxRequests :
        (ws_client.sent = n /\ ws_client.cancelled) ~> DoneSent(n)

\* the payloads of the delta events sent so far
RECURSIVE DeltasOf(_)
DeltasOf(out) ==
    IF out = <<>> THEN <<>>
    ELSE (IF Head(out).event = "delta" THEN <<Head(out).data>> ELSE <<>>)
         \o DeltasOf(Tail(out))

\* one meta event, first; at most one done event, last, and none but at the end
SseFramed ==
    /\ sse_out # <<>> => sse_out[1] = Event("meta")
    /\ \A k \in 2..Len(sse_out) : sse_out[k].event # "meta"
    /\ \A k \in 1..Len(sse_out) : sse_out[k].event = "done" => k = Len(sse_out)
    /\ sse_pc = "closed" <=> (sse_out # <<>> /\ sse_out[Len(sse_out)].event = "done")

RECURSIVE Carries(_, _)
\* the texts of a occur in b, in the same order
Carries(a, b) ==
    IF a = <<>> THEN TRUE
    ELSE IF b = <<>> THEN FALSE
    ELSE IF Head(a) = Head(b) THEN Carries(Tail(a), Tail(b))
    ELSE Carries(a, Tail(b))

\* C18 (as stated): with a client that stays connected, the /sse stream starts
\* with one meta event, carries every delta stream_agent produced, in
\* production order, and ends with exactly one done event after which nothing
\* is sent, on every path and in every interleaving.
C18_Original ==
    /\ [](SseFramed /\ (sse_pc = "closed" => Carries(sse_produced, DeltasOf(sse_out))))
    /\ <>(sse_pc = "closed")

\* C18 (amended): the stream starts with one meta event and ends with exactly
\* one done event after which nothing is sent, on every path and in every
\* interleaving; on the normal-end path it carries every delta stream_agent
\* produced, in production order (then the error tag when stream_agent
\* raised); on the two fallback paths it carries one delta, the one-shot text.
C18_SseStream ==
    /\ [](/\ SseFramed
          /\ sse_pc = "closed" =>
                IF sse_out[Len(sse_out)] = Done("none")
                THEN DeltasOf(sse_out)
                     = sse_produced \o (IF sse_stream.raises THEN <<ErrorChunk>> ELSE <<>>)
                ELSE /\ Len(DeltasOf(sse_out)) = 1
                     /\ DeltasOf(sse_out)[1] \in {"one-shot", ErrorChunk})
    /\ <>(sse_pc = "closed")

\* a stream of two deltas with a ping between them ended normally
C18_Witness ==
    /\ sse_pc = "closed"
    /\ sse_out = <<Event("meta"), Delta("hello "), Event("ping"), Delta("world"),
                   Done("none")>>

\* C19 (as stated): in cascade and committee modes, once cancellation is
\* signaled no new pool-member invocation is issued and the request returns
\* with what completed before the signal.
C19_Original ==
    [][(cancel_requested /\ pc \in {"cascade", "committee"})
          => (invocations' = invocations /\ pc' = "done")]_allVars

\* C20 (as stated): in router mode one pool member is invoked, once, and the
\* judge never; when that invocation fails no other member is tried and the
\* result is an error result: meta.error set and the fallback response.
C20_Original ==
    (Returned /\ mode = "router") =>
        /\ Len(invocations) = 1
        /\ invocations[1].role = "member"
        /\ invocations[1].failed =>
              /\ "error" \in DOMAIN result.meta
              /\ result.response = _get_fallback_response(req.message)

\* the attempts of the request that returned a text of trimmed length > least
LongerThan(least) ==
    {k \in 1..Len(invocations) :
        /\ invocations[k].role = "member"
        /\ ~invocations[k].raised
        /\ CharLen(Strip(invocations[k].text)) > least}

\* the earliest attempt of set S with the greatest trimmed length
Longest(S) ==
    CHOOSE k \in S : \A h \in S :
        \/ CharLen(Strip(invocations[k].text)) > CharLen(Strip(invocations[h].text))
        \/ /\ CharLen(Strip(invocations[k].text)) = CharLen(Strip(invocations[h].text))
           /\ k <= h

RECURSIVE PairsOf(_)
\* the (label, text) pairs of the member invocations that did not fail
PairsOf(invs) ==
    IF invs = <<>> THEN <<>>
    ELSE (IF Head(invs).role = "member" /\ ~Head(invs).failed
          THEN <<[label |-> <<Head(invs).model.provider, ":", Head(invs).model.model>>,
                  text |-> Head(invs).text]>>
          ELSE <<>>)
         \o PairsOf(Tail(invs))

\* C22 (as stated): in committee mode every pool member is invoked once, in
\* pool order, whatever failed before; the judge is invoked only after the
\* last member returned, once, with all successful (label, text) pairs in pool
\* order; when no member succeeds the judge is not invoked and the response is
\* the fallback response.
C22_Original ==
    InCommittee =>
        /\ \A k \in MemberCalls : k <= Len(pool) /\ invocations[k].model = pool[k]
        /\ \A k \in 1..Len(invocations) :
              invocations[k].role = "judge" =>
                  /\ k = Len(pool) + 1
                  /\ k = Len(invocations)
                  /\ candidates = PairsOf(invocations)
        /\ Returned =>
              /\ Cardinality(MemberCalls) = Len(pool)
              /\ PairsOf(invocations) = <<>> =>
                    /\ ~JudgeCalled
                    /\ result.response = _get_fallback_response(req.message)

\* the keys resident in a cache
Resident(c) == {c[k].key : k \in 1..Len(c)}

\* the entries of the cache before the last call that are gone after it
Removed ==
    LET now == Resident(cache)
    IN  {k \in 1..Len(cc_last.before) : cc_last.before[k].key \notin now}

\* C23: after any sequence of calls the cache holds at most 100 entries; an
\* entry is removed only when a call inserts a new key into a full cache, and
\* it is then the entry whose last use (store or hit) is the oldest.
C23_CacheBounded ==
    /\ Len(cache) <= maxsize
    /\ cc_last # None =>
          LET b == cc_last.before
          IN  Removed # {} =>
                    /\ Len(b) = maxsize
                    /\ cc_last.key \notin Resident(b)
                    /\ cc_last.key \in Resident(cache)
                    /\ Cardinality(Removed) = 1
                    /\ \A k \in Removed : \A j \in 1..Len(b) :
                          cc_used.at[b[k].key] <= cc_used.at[b[j].key]

\* C23 witness: a question that was hit again outlives the eviction that
\* removes the second question
C23_Witness ==
    /\ cc_last # None
    /\ cc_calls = 2
    /\ Removed # {}
    /\ WarmKey(1) \in Resident(cache)
    /\ WarmKey(2) \notin Resident(cache)

\* the entries of the cache before the last call that are stored under its key
StoredBefore == {k \in 1..Len(cc_last.before) : cc_last.before[k].key = cc_last.key}

\* C24: a call whose tuple equals a resident key returns the text stored
\* under it and the backend is not called; a call whose tuple differs from
\* every resident key in some component calls the backend and gets what the
\* backend did.
C24_CacheHit ==
    cc_last # None =>
        /\ StoredBefore # {} =>
              /\ cc_last.hit
              /\ ~cc_last.raised
              /\ \A k \in StoredBefore : cc_last.text = cc_last.before[k].val
        /\ StoredBefore = {} =>
              /\ ~cc_last.hit
              /\ cc_last.kind = "text" => ~cc_last.raised /\ cc_last.text = <<"ok">>
              /\ cc_last.kind = "api_error" => cc_last.text = AgentErrorText

\* C24 witness: the stored answer is returned although the backend would fail
C24_Witness ==
    /\ cc_last # None
    /\ cc_calls > 0
    /\ cc_last.hit
    /\ cc_last.kind = "client_error"
    /\ cc_last.text = <<"ok">>

\* an error-tagged text
ErrorTagged(text) == text # <<>> /\ Head(text) = AgentErrorTag

\* C26: a call that raises leaves the cache as it was, without an entry
\* under its key; a call that returns an error-tagged text stores it, and a
\* later call under the same key gets the stored error text from the cache.
C26_ErrorCached ==
    cc_last # None =>
        /\ cc_last.raised =>
              /\ cache = cc_last.before
              /\ cc_last.key \notin Resident(cache)
        /\ ~cc_last.hit /\ ~cc_last.raised /\ cc_last.kind = "api_error" =>
              /\ ErrorTagged(cc_last.text)
              /\ \E k \in 1..Len(cache) :
                    cache[k].key = cc_last.key /\ cache[k].val = cc_last.text
        /\ \A k \in StoredBefore :
              ErrorTagged(cc_last.before[k].val) =>
                  cc_last.hit /\ cc_last.text = cc_last.before[k].val

\* C26 witness: the stored error text is returned although the backend
\* would answer now
C26_Witness ==
    /\ cc_last # None
    /\ cc_last.hit
    /\ cc_last.kind = "text"
    /\ ErrorTagged(cc_last.text)

\* run_ensemble has returned from the code after the mode dispatch (line 196 on)
Dispatched == pc = "done" /\ meta # None

\* C25 as stated: every result returned after the mode dispatch has
\* meta.elapsed_s set to a duration that is not null and not negative.
C25_Original ==
    Dispatched =>
        /\ "elapsed_s" \in DOMAIN result.meta
        /\ result.meta.elapsed_s # None
        /\ result.meta.elapsed_s.secs >= 0

SameText == {k \in MemberCalls : ~invocations[k].raised
                                  /\ invocations[k].text = result.response}

\* what meta.chosen is after the judge ran
JudgeIdentity == [provider |-> judge_provider, model |-> judge_model, role |-> "judge"]

SansElapsed(res) ==
    IF "elapsed_s" \in DOMAIN res.meta THEN [res EXCEPT !.meta.elapsed_s = None]
    ELSE res

Pending == sa_queue \o sa_ready

\* the texts of a sequence of queue items that are not the end marker
TextsOf(items) ==
    LET F[k \in 0..Len(items)] ==
            IF k = 0 THEN <<>>
            ELSE IF items[k].end THEN F[k - 1]
            ELSE Append(F[k - 1], items[k].text)
    IN  F[Len(items)]

\* the end markers enqueued so far
Markers ==
    Cardinality({k \in 1..Len(Pending) : Pending[k].end})
        + (IF sa_pc = "stopped" THEN 1 ELSE 0)

\* the chunks the thread has enqueued so far, taken or not
Enqueued == sa_out \o TextsOf(Pending)

\* C30: stream_agent terminates; the thread enqueues the end marker once,
\* as its last item, whether the provider stream ended or raised; the
\* generator yields the deltas in the order produced, then the error chunk
\* when the stream raised, and stops at the marker with nothing left behind.
C30_StreamEnds ==
    /\ [](/\ Markers <= 1
          /\ sa_thread.state = "exited" <=> Markers = 1
          /\ \A k \in 1..Len(Pending) : Pending[k].end => k = Len(Pending)
          /\ sa_thread.state \in {"running", "except"} => Enqueued = sa_produced
          /\ sa_thread.state \in {"finally", "exited"} =>
                Enqueued = sa_produced
                           \o (IF sa_thread.raises THEN <<ErrorChunk>> ELSE <<>>)
          /\ sa_pc = "stopped" =>
                /\ Pending = <<>>
                /\ sa_thread.state = "exited"
                /\ sa_thread.left = <<>>
                /\ sa_out = sa_produced
                            \o (IF sa_thread.raises THEN <<ErrorChunk>> ELSE <<>>))
    /\ <>(sa_pc \in {"stopped", "raised"})

\* C30 witness: the provider delivered two deltas and raised; the generator
\* yielded them, then the error chunk, and stopped
C30_Witness ==
    /\ sa_pc = "stopped"
    /\ sa_thread.raises
    /\ sa_out = <<"hello ", "world", ErrorChunk>>

====
